---------------------------- MODULE Spec2Model ----------------------------
(***************************************************************************)
(* Day-count conventions (market_conventions/daycount.py) and roll         *)
(* conventions (market_conventions/rollconvention.py, date_utils.py).      *)
(*                                                                         *)
(* A datetime.date is represented by its proleptic Gregorian ordinal       *)
(* (date.toordinal(): 0001-01-01 is 1, 9999-12-31 is 3652059).  Year,      *)
(* month and day are derived from the ordinal the way datetime does it.    *)
(* date + timedelta(days=n) raises OverflowError when the sum leaves       *)
(* date.min .. date.max.                                                   *)
(*                                                                         *)
(* A float result a / b is represented by the pair <<a, b>> of the         *)
(* integer operands of the division: IEEE division is correctly rounded    *)
(* and odd in its numerator, and for one denominator distinct integer      *)
(* numerators of this size give distinct floats.                           *)
(***************************************************************************)
EXTENDS Integers, Sequences, FiniteSets

VARIABLES
    comp,            \* which component is called: "roll" or "daycount"
    pc,              \* position inside the called method
    conv,            \* the class whose method is running ("none" before)
    input,           \* the date argument as passed by the caller
    date,            \* the local variable `date` of adjustDay
    holidays,        \* the holidays argument (a set of dates)
    original_month,  \* the local variable original_month (0: unset)
    ret,             \* the returned date (0: nothing returned)
    start_date,      \* year_fraction argument
    end_date,        \* year_fraction argument
    yf               \* value returned by year_fraction, <<num, den>>

vars == <<comp, pc, conv, input, date, holidays, original_month, ret,
          start_date, end_date, yf>>

---------------------------------------------------------------------------
(* Bounds of the explored inputs *)

\* days on each side of an anchor date from which input dates are drawn
WindowRadius == 5

\* longest run of consecutive holiday dates (besides whole months)
MaxStretch == 5

---------------------------------------------------------------------------
(* datetime.date *)

MinOrdinal == 1

MaxOrdinal == 3652059

InRange(o) == MinOrdinal <= o /\ o <= MaxOrdinal

IsLeap(y) == y % 4 = 0 /\ (y % 100 # 0 \/ y % 400 = 0)

DaysInMonth(y, m) ==
    IF m = 2 /\ IsLeap(y) THEN 29
    ELSE <<31, 28, 31, 30, 31, 30, 31, 31, 30, 31, 30, 31>>[m]

DaysBeforeMonth(y, m) ==
    <<0, 31, 59, 90, 120, 151, 181, 212, 243, 273, 304, 334>>[m]
        + (IF m > 2 /\ IsLeap(y) THEN 1 ELSE 0)

DaysBeforeYear(y) ==
    LET k == y - 1 IN k * 365 + (k \div 4) - (k \div 100) + (k \div 400)

\* datetime.date(y, m, d).toordinal()
ymd2ord(y, m, d) == DaysBeforeYear(y) + DaysBeforeMonth(y, m) + d

\* datetime.date.fromordinal(o) as <<year, month, day>>
ord2ymd(o) ==
    LET n0   == o - 1
        n400 == n0 \div 146097
        r400 == n0 % 146097
        n100 == r400 \div 36524
        r100 == r400 % 36524
        n4   == r100 \div 1461
        r4   == r100 % 1461
        n1   == r4 \div 365
        n    == r4 % 365
        y    == n400 * 400 + 1 + n100 * 100 + n4 * 4 + n1
    IN  IF n1 = 4 \/ n100 = 4
        THEN <<y - 1, 12, 31>>
        ELSE LET m0 == (n + 50) \div 32
                 p0 == DaysBeforeMonth(y, m0)
                 m  == IF p0 > n THEN m0 - 1 ELSE m0
                 p  == DaysBeforeMonth(y, m)
             IN  <<y, m, n - p + 1>>

Year(o) == ord2ymd(o)[1]

Month(o) == ord2ymd(o)[2]

Day(o) == ord2ymd(o)[3]

\* date.weekday(): Monday is 0, Sunday is 6
Weekday(o) == (o + 6) % 7

\* (b - a).days
DaysBetween(a, b) == b - a

---------------------------------------------------------------------------
(* date_utils.py *)

is_business_day(d, hs) == Weekday(d) < 5 /\ d \notin hs

---------------------------------------------------------------------------
(* rollconvention.py: Following.adjustDay and Preceding.adjustDay as        *)
(* functions of their arguments.  The result is the returned ordinal, or 0 *)
(* when the walk leaves date.min .. date.max and the date arithmetic       *)
(* raises OverflowError.                                                   *)

RECURSIVE WalkForward(_, _)
WalkForward(d, hs) ==
    IF is_business_day(d, hs) THEN d
    ELSE IF InRange(d + 1) THEN WalkForward(d + 1, hs) ELSE 0

RECURSIVE WalkBackward(_, _)
WalkBackward(d, hs) ==
    IF is_business_day(d, hs) THEN d
    ELSE IF InRange(d - 1) THEN WalkBackward(d - 1, hs) ELSE 0

Following_adjustDay(d, hs) == WalkForward(d, hs)

Preceding_adjustDay(d, hs) == WalkBackward(d, hs)

---------------------------------------------------------------------------
(* daycount.py: year_fraction of each class, as <<numerator, denominator>> *)

Min(a, b) == IF a <= b THEN a ELSE b

Max(a, b) == IF a >= b THEN a ELSE b

\* faulty variant: the day difference taken as a length
Actual360_Abs(s, e) ==
    LET time_delta == DaysBetween(s, e)
    IN  <<IF time_delta < 0 THEN - time_delta ELSE time_delta, 360>>

Actual360_year_fraction(s, e) ==
    LET time_delta == DaysBetween(s, e)
    IN  <<time_delta, 360>>

Actual365_year_fraction(s, e) ==
    LET time_delta == DaysBetween(s, e)
    IN  <<time_delta, 365>>

\* faulty variant: the year length taken from the end date
ActualActual_EndYear(s, e) ==
    LET time_delta  == DaysBetween(s, e)
        year_length == IF IsLeap(Year(e)) THEN 366 ELSE 365
    IN  <<time_delta, year_length>>

ActualActual_year_fraction(s, e) ==
    LET time_delta  == DaysBetween(s, e)
        year_length == IF Year(s) % 4 = 0
                          /\ (Year(s) % 100 # 0 \/ Year(s) % 400 = 0)
                       THEN 366 ELSE 365
    IN  <<time_delta, year_length>>

\* faulty variant: the start day is not clamped
Thirty360_NoStartClamp(s, e) ==
    LET d1 == Day(s)
        d2 == Min(Day(e), 30)
    IN  <<(360 * (Year(e) - Year(s))) + (30 * (Month(e) - Month(s))) + (d2 - d1),
          360>>

Thirty360_year_fraction(s, e) ==
    LET d1 == Min(Day(s), 30)
        d2 == Min(Day(e), 30)
        m1 == Month(s)
        m2 == Month(e)
        y1 == Year(s)
        y2 == Year(e)
    IN  <<(360 * (y2 - y1)) + (30 * (m2 - m1)) + (d2 - d1), 360>>

\* faulty variant: d2 is set to 30 whenever d1 is 30
Thirty360US_EndAlways30(s, e) ==
    LET d1 == IF Day(s) = 31 THEN 30 ELSE Day(s)
        d2 == IF d1 = 30 THEN 30 ELSE Day(e)
    IN  <<(360 * (Year(e) - Year(s))) + (30 * (Month(e) - Month(s))) + (d2 - d1),
          360>>

\* faulty variant: the end day is never clamped
Thirty360US_NoEndClamp(s, e) ==
    LET d1 == IF Day(s) = 31 THEN 30 ELSE Day(s)
        d2 == Day(e)
    IN  <<(360 * (Year(e) - Year(s))) + (30 * (Month(e) - Month(s))) + (d2 - d1),
          360>>

Thirty360US_year_fraction(s, e) ==
    LET d1a == Day(s)
        d2a == Day(e)
        m1 == Month(s)
        m2 == Month(e)
        y1 == Year(s)
        y2 == Year(e)
        d1 == IF d1a = 31 THEN 30 ELSE d1a
        d2 == IF d2a = 31 /\ d1 = 30 THEN 30 ELSE d2a
    IN  <<(360 * (y2 - y1)) + (30 * (m2 - m1)) + (d2 - d1), 360>>

\* faulty variant: only the start day is clamped
Thirty360EU_NoEndClamp(s, e) ==
    LET d1 == Min(Day(s), 30)
        d2 == Day(e)
    IN  <<(360 * (Year(e) - Year(s))) + (30 * (Month(e) - Month(s))) + (d2 - d1),
          360>>

Thirty360EU_year_fraction(s, e) ==
    LET d1a == Min(Day(s), 30)
        d2a == Min(Day(e), 30)
        m1 == Month(s)
        m2 == Month(e)
        y1 == Year(s)
        y2 == Year(e)
        d1 == IF d1a = 31 THEN 30 ELSE d1a
        d2 == IF d2a = 31 THEN 30 ELSE d2a
    IN  <<(360 * (y2 - y1)) + (30 * (m2 - m1)) + (d2 - d1), 360>>

---------------------------------------------------------------------------
(* Inputs *)

\* dates around which adjustDay inputs are drawn: date.min, a month start
\* on a Saturday, a month and year end on a Sunday, date.max
RollAnchors ==
    { MinOrdinal, ymd2ord(2023, 4, 1), ymd2ord(2023, 12, 31), MaxOrdinal }

Window(a) == { o \in (a - WindowRadius)..(a + WindowRadius) : InRange(o) }

\* n consecutive dates from a on
Stretch(a, n) == { o \in a..(a + n - 1) : InRange(o) }

\* every date of the calendar month of o
MonthDays(o) ==
    LET y == Year(o)
        m == Month(o)
    IN  ymd2ord(y, m, 1)..ymd2ord(y, m, DaysInMonth(y, m))

\* holiday sets tried with an input date d of the window around a: one run
\* of at most MaxStretch consecutive dates, or the whole month of d
HolidaySets(a, d) ==
    { Stretch(b, n) : b \in Window(a), n \in 0..MaxStretch } \cup { MonthDays(d) }

DayCountDates ==
    { ymd2ord(t[1], t[2], t[3]) :
        t \in { <<1, 1, 1>>, <<1900, 2, 28>>, <<1900, 12, 31>>, <<2000, 2, 29>>,
                <<2000, 12, 31>>, <<2020, 1, 30>>, <<2020, 2, 28>>,
                <<2020, 2, 29>>, <<2023, 1, 31>>, <<2023, 3, 1>>,
                <<2023, 3, 31>>, <<2023, 12, 31>>, <<2024, 1, 1>>,
                <<2024, 2, 29>>, <<2024, 7, 31>>, <<9999, 12, 31>> } }

---------------------------------------------------------------------------
(* State machine *)

InitRoll ==
    /\ comp = "roll"
    /\ \E a \in RollAnchors :
          /\ input \in Window(a)
          /\ holidays \in HolidaySets(a, input)
    /\ date = input
    /\ start_date = 0
    /\ end_date = 0

InitDayCount ==
    /\ comp = "daycount"
    /\ start_date \in DayCountDates
    /\ end_date \in DayCountDates
    /\ input = 0
    /\ date = 0
    /\ holidays = {}

Init ==
    /\ InitRoll \/ InitDayCount
    /\ pc = "idle"
    /\ conv = "none"
    /\ original_month = 0
    /\ ret = 0
    /\ yf = <<0, 1>>

\* year_fraction has no local state to step through: one call, one result
Return_year_fraction(c, v) ==
    /\ comp = "daycount"
    /\ conv' = c
    /\ yf' = v
    /\ pc' = "done"
    /\ UNCHANGED <<comp, input, date, holidays, original_month, ret,
                   start_date, end_date>>

Actual360_call ==
    /\ pc = "idle"
    /\ Return_year_fraction("Actual360",
                            Actual360_year_fraction(start_date, end_date))

Actual365_call ==
    /\ pc = "idle"
    /\ Return_year_fraction("Actual365",
                            Actual365_year_fraction(start_date, end_date))

ActualActual_call ==
    /\ pc = "idle"
    /\ Return_year_fraction("ActualActual",
                            ActualActual_year_fraction(start_date, end_date))

Thirty360_call ==
    /\ pc = "idle"
    /\ Return_year_fraction("Thirty360",
                            Thirty360_year_fraction(start_date, end_date))

Thirty360US_call ==
    /\ pc = "idle"
    /\ Return_year_fraction("Thirty360US",
                            Thirty360US_year_fraction(start_date, end_date))

Thirty360EU_call ==
    /\ pc = "idle"
    /\ Return_year_fraction("Thirty360EU",
                            Thirty360EU_year_fraction(start_date, end_date))

\* entry of an adjustDay of class c, whose first statement is at p
Enter(c, p, om) ==
    /\ comp = "roll"
    /\ conv' = c
    /\ pc' = p
    /\ original_month' = om
    /\ UNCHANGED <<comp, input, date, holidays, ret, start_date, end_date, yf>>

\* faulty variant: date arithmetic that saturates at date.min / date.max instead of
\* raising, so the loop spins there
WhileStep_Saturating(n) ==
    /\ ~ is_business_day(date, holidays)
    /\ date' = IF InRange(date + n) THEN date + n ELSE date
    /\ UNCHANGED <<comp, pc, conv, input, holidays, original_month, ret,
                   start_date, end_date, yf>>

\* one iteration of `while not is_business_day(date, holidays): date += n`
WhileStep(n) ==
    /\ ~ is_business_day(date, holidays)
    /\ IF InRange(date + n)
       THEN date' = date + n /\ pc' = pc
       ELSE date' = date /\ pc' = "raised"
    /\ UNCHANGED <<comp, conv, input, holidays, original_month, ret,
                   start_date, end_date, yf>>

\* the loop ends: control moves on to q
WhileExit(q) ==
    /\ is_business_day(date, holidays)
    /\ pc' = q
    /\ UNCHANGED <<comp, conv, input, date, holidays, original_month, ret,
                   start_date, end_date, yf>>

\* `return date`
Return ==
    /\ ret' = date
    /\ pc' = "done"
    /\ UNCHANGED <<comp, conv, input, date, holidays, original_month,
                   start_date, end_date, yf>>

\* `if date.month != original_month: date += n` and on into the loop at q,
\* else on to the return at r
MonthCheck(n, q, r) ==
    /\ IF Month(date) # original_month
       THEN IF InRange(date + n)
            THEN date' = date + n /\ pc' = q
            ELSE date' = date /\ pc' = "raised"
       ELSE date' = date /\ pc' = r
    /\ UNCHANGED <<comp, conv, input, holidays, original_month, ret,
                   start_date, end_date, yf>>

\* faulty variant: no month check, control goes straight to the return at r
NoMonthCheck(r) ==
    /\ pc' = r
    /\ UNCHANGED <<comp, conv, input, date, holidays, original_month, ret,
                   start_date, end_date, yf>>

Following_enter ==
    /\ pc = "idle"
    /\ Enter("Following", "F_while", original_month)

\* faulty variant: the walk advances two days at a time
Following_step_TwoDays ==
    /\ pc = "F_while"
    /\ WhileStep(2)

Following_step ==
    /\ pc = "F_while"
    /\ WhileStep(1)

Following_exit ==
    /\ pc = "F_while"
    /\ WhileExit("F_return")

Following_return ==
    /\ pc = "F_return"
    /\ Return

ModifiedFollowing_enter ==
    /\ pc = "idle"
    /\ Enter("ModifiedFollowing", "MF_while1", Month(date))

ModifiedFollowing_step1 ==
    /\ pc = "MF_while1"
    /\ WhileStep(1)

ModifiedFollowing_exit1 ==
    /\ pc = "MF_while1"
    /\ WhileExit("MF_if")

\* faulty variant: the month check is dropped and the forward result returned
ModifiedFollowing_if_NoCheck ==
    /\ pc = "MF_if"
    /\ NoMonthCheck("MF_return")

ModifiedFollowing_if ==
    /\ pc = "MF_if"
    /\ MonthCheck(-1, "MF_while2", "MF_return")

ModifiedFollowing_step2 ==
    /\ pc = "MF_while2"
    /\ WhileStep(-1)

ModifiedFollowing_exit2 ==
    /\ pc = "MF_while2"
    /\ WhileExit("MF_return")

ModifiedFollowing_return ==
    /\ pc = "MF_return"
    /\ Return

Preceding_enter ==
    /\ pc = "idle"
    /\ Enter("Preceding", "P_while", original_month)

Preceding_step ==
    /\ pc = "P_while"
    /\ WhileStep(-1)

Preceding_exit ==
    /\ pc = "P_while"
    /\ WhileExit("P_return")

Preceding_return ==
    /\ pc = "P_return"
    /\ Return

ModifiedPreceding_enter ==
    /\ pc = "idle"
    /\ Enter("ModifiedPreceding", "MP_while1", Month(date))

ModifiedPreceding_step1 ==
    /\ pc = "MP_while1"
    /\ WhileStep(-1)

ModifiedPreceding_exit1 ==
    /\ pc = "MP_while1"
    /\ WhileExit("MP_if")

\* faulty variant: the month check is dropped and the backward result returned
ModifiedPreceding_if_NoCheck ==
    /\ pc = "MP_if"
    /\ NoMonthCheck("MP_return")

ModifiedPreceding_if ==
    /\ pc = "MP_if"
    /\ MonthCheck(1, "MP_while2", "MP_return")

ModifiedPreceding_step2 ==
    /\ pc = "MP_while2"
    /\ WhileStep(1)

ModifiedPreceding_exit2 ==
    /\ pc = "MP_while2"
    /\ WhileExit("MP_return")

ModifiedPreceding_return ==
    /\ pc = "MP_return"
    /\ Return

Next ==
    \/ Actual360_call
    \/ Actual365_call
    \/ ActualActual_call
    \/ Thirty360_call
    \/ Thirty360US_call
    \/ Thirty360EU_call
    \/ Following_enter
    \/ Following_step
    \/ Following_exit
    \/ Following_return
    \/ ModifiedFollowing_enter
    \/ ModifiedFollowing_step1
    \/ ModifiedFollowing_exit1
    \/ ModifiedFollowing_if
    \/ ModifiedFollowing_step2
    \/ ModifiedFollowing_exit2
    \/ ModifiedFollowing_return
    \/ Preceding_enter
    \/ Preceding_step
    \/ Preceding_exit
    \/ Preceding_return
    \/ ModifiedPreceding_enter
    \/ ModifiedPreceding_step1
    \/ ModifiedPreceding_exit1
    \/ ModifiedPreceding_if
    \/ ModifiedPreceding_step2
    \/ ModifiedPreceding_exit2
    \/ ModifiedPreceding_return

Spec == Init /\ [][Next]_vars

\* the interpreter runs a call to its end: no step waits forever
FairSpec == Spec /\ WF_vars(Next)

---------------------------------------------------------------------------
(* Vocabulary of the properties *)

RollDone == comp = "roll" /\ pc = "done"

RollRaised == comp = "roll" /\ pc = "raised"

DayCountDone == comp = "daycount" /\ pc = "done"

\* what the call produced: the returned date, or 0 for OverflowError
Outcome == IF pc = "done" THEN ret ELSE 0

SameCalendarMonth(a, b) == Year(a) = Year(b) /\ Month(a) = Month(b)

SetMax(S) == CHOOSE x \in S : \A y \in S : y <= x

SetMin(S) == CHOOSE x \in S : \A y \in S : x <= y

\* Past the last holiday every weekday is a business day, so a business day
\* on or after d exists exactly when one exists at most a week past it.
BusinessDayOnOrAfter(d, hs) ==
    \E o \in d..Min(MaxOrdinal, SetMax(hs \cup {d}) + 7) : is_business_day(o, hs)

BusinessDayOnOrBefore(d, hs) ==
    \E o \in Max(MinOrdinal, SetMin(hs \cup {d}) - 7)..d : is_business_day(o, hs)

MonthHasBusinessDay(d, hs) ==
    \E o \in MonthDays(d) : is_business_day(o, hs)

ThirtyFamily == {"Thirty360", "Thirty360US", "Thirty360EU"}

\* the combination 360*(y2-y1) + 30*(m2-m1) + (b-a) over 360
Combine(s, e, a, b) ==
    <<360 * (Year(e) - Year(s)) + 30 * (Month(e) - Month(s)) + (b - a), 360>>

---------------------------------------------------------------------------
(* Roll conventions *)

C2_NearestBusinessDay ==
    RollDone =>
        /\ conv = "Following" =>
              /\ ret >= input
              /\ is_business_day(ret, holidays)
              /\ \A o \in input..(ret - 1) : ~ is_business_day(o, holidays)
              /\ is_business_day(input, holidays) => ret = input
              /\ Following_adjustDay(ret, holidays) = ret
        /\ conv = "Preceding" =>
              /\ ret <= input
              /\ is_business_day(ret, holidays)
              /\ \A o \in (ret + 1)..input : ~ is_business_day(o, holidays)
              /\ is_business_day(input, holidays) => ret = input
              /\ Preceding_adjustDay(ret, holidays) = ret

\* Following walked over a weekend and a holiday
C2_Witness ==
    /\ RollDone
    /\ conv = "Following"
    /\ ret >= input + 3
    /\ (ret - 1) \in holidays

C10_Original ==
    (comp = "roll" /\ pc \in {"done", "raised"}) =>
        pc = "done" /\ is_business_day(ret, holidays)

\* C10 amended: every call of the four roll conventions ends; a returned
\* date is a business day; Following.adjustDay (Preceding.adjustDay) returns
\* exactly when a business day exists on or after (on or before) the input
\* date within date.min .. date.max, and otherwise ends with the
\* OverflowError of the date arithmetic.
C10_WalkEndsByReturnOrOverflow ==
    /\ (comp = "roll") ~> (pc \in {"done", "raised"})
    /\ [](RollDone => is_business_day(ret, holidays))
    /\ []((comp = "roll" /\ conv = "Following" /\ pc \in {"done", "raised"}) =>
            (pc = "done" <=> BusinessDayOnOrAfter(input, holidays)))
    /\ []((comp = "roll" /\ conv = "Preceding" /\ pc \in {"done", "raised"}) =>
            (pc = "done" <=> BusinessDayOnOrBefore(input, holidays)))

\* Preceding on date.min, itself a holiday: the walk steps below date.min
C10_Witness ==
    /\ RollRaised
    /\ conv = "Preceding"
    /\ input = MinOrdinal
    /\ holidays = {MinOrdinal}

---------------------------------------------------------------------------
(* Day-count conventions *)

\* C3: each 30/360 variant returns 360*(y2-y1) + 30*(m2-m1) + (d2'-d1') over
\* 360 with its own clamps, for dates in either order: Thirty360 min(d,30) on
\* both days; Thirty360US 31 -> 30 on d1, and on d2 only when d1' is 30;
\* Thirty360EU 31 -> 30 (else min(d,30)) on both days.  Thirty360 gives
\* 31/360 for 2023-01-31 to 2023-03-01 and 28/360 for 2020-01-30 to
\* 2020-02-28.
C3_ThirtyFormulas ==
    LET d1 == Day(start_date)
        d2 == Day(end_date)
        us1 == IF d1 = 31 THEN 30 ELSE d1
    IN  DayCountDone =>
        /\ conv = "Thirty360" =>
              /\ yf = Combine(start_date, end_date, Min(d1, 30), Min(d2, 30))
              /\ (/\ start_date = ymd2ord(2023, 1, 31)
                  /\ end_date = ymd2ord(2023, 3, 1)) => yf = <<31, 360>>
              /\ (/\ start_date = ymd2ord(2020, 1, 30)
                  /\ end_date = ymd2ord(2020, 2, 28)) => yf = <<28, 360>>
        /\ conv = "Thirty360US" =>
              yf = Combine(start_date, end_date, us1,
                           IF d2 = 31 /\ us1 = 30 THEN 30 ELSE d2)
        /\ conv = "Thirty360EU" =>
              yf = Combine(start_date, end_date,
                           IF d1 = 31 THEN 30 ELSE Min(d1, 30),
                           IF d2 = 31 THEN 30 ELSE Min(d2, 30))

C3_Witness ==
    /\ DayCountDone
    /\ conv = "Thirty360"
    /\ start_date = ymd2ord(2023, 1, 31)
    /\ end_date = ymd2ord(2023, 3, 1)
    /\ yf = <<31, 360>>

\* C4 as stated: some pair of dates whose start day is 31 makes Thirty360,
\* Thirty360US and Thirty360EU return values that are not all the same (the
\* pair sought among all the dates year_fraction is called with).
C4_Original ==
    DayCountDone =>
    \E s \in DayCountDates, e \in DayCountDates :
        /\ Day(s) = 31
        /\ ~ (/\ Thirty360_year_fraction(s, e) = Thirty360US_year_fraction(s, e)
              /\ Thirty360US_year_fraction(s, e) = Thirty360EU_year_fraction(s, e))

\* C4 amended: with a start day of 31 the three variants return the same
\* value; they diverge for an end day of 31 with a start day below 30, where
\* Thirty360US keeps d2 = 31 and returns 1/360 more than Thirty360 and
\* Thirty360EU, which agree with each other.
C4_DivergeOnEndDay31Only ==
    (DayCountDone /\ conv \in ThirtyFamily) =>
        /\ Day(start_date) = 31 =>
              /\ yf = Thirty360_year_fraction(start_date, end_date)
              /\ yf = Thirty360US_year_fraction(start_date, end_date)
              /\ yf = Thirty360EU_year_fraction(start_date, end_date)
        /\ (conv = "Thirty360US" /\ Day(end_date) = 31 /\ Day(start_date) < 30) =>
              /\ yf[1] = Thirty360_year_fraction(start_date, end_date)[1] + 1
              /\ Thirty360_year_fraction(start_date, end_date)
                    = Thirty360EU_year_fraction(start_date, end_date)

C4_Witness ==
    /\ DayCountDone
    /\ conv = "Thirty360US"
    /\ start_date = ymd2ord(2023, 3, 1)
    /\ end_date = ymd2ord(2023, 3, 31)
    /\ yf = <<30, 360>>
    /\ Thirty360_year_fraction(start_date, end_date) = <<29, 360>>
    /\ Thirty360EU_year_fraction(start_date, end_date) = <<29, 360>>

\* C5: when neither the start day nor the end day is 31, the three 30/360
\* variants return the same value.
C5_AgreeWithoutDay31 ==
    (/\ DayCountDone
     /\ conv \in ThirtyFamily
     /\ Day(start_date) # 31
     /\ Day(end_date) # 31) =>
        /\ yf = Thirty360_year_fraction(start_date, end_date)
        /\ yf = Thirty360US_year_fraction(start_date, end_date)
        /\ yf = Thirty360EU_year_fraction(start_date, end_date)

C5_Witness ==
    /\ DayCountDone
    /\ conv = "Thirty360US"
    /\ start_date = ymd2ord(2020, 1, 30)
    /\ end_date = ymd2ord(2020, 2, 28)
    /\ yf = <<28, 360>>

\* C6: for each of the six conventions year_fraction(d, d) is exactly 0,
\* days 31 included.
C6_ZeroOnEqualDates ==
    (DayCountDone /\ start_date = end_date) => yf[1] = 0 /\ yf[2] > 0

C6_Witness ==
    /\ DayCountDone
    /\ conv = "Thirty360US"
    /\ start_date = end_date
    /\ Day(start_date) = 31
    /\ yf[1] = 0

\* C7: Actual360 and Actual365 are antisymmetric, year_fraction(d1, d2) =
\* -year_fraction(d2, d1), and an end date before the start date gives a
\* negative result.
C7_ActualAntisymmetric ==
    DayCountDone =>
        /\ conv = "Actual360" =>
              /\ yf[1] = - Actual360_year_fraction(end_date, start_date)[1]
              /\ yf[2] = Actual360_year_fraction(end_date, start_date)[2]
              /\ end_date < start_date => yf[1] < 0
        /\ conv = "Actual365" =>
              /\ yf[1] = - Actual365_year_fraction(end_date, start_date)[1]
              /\ yf[2] = Actual365_year_fraction(end_date, start_date)[2]
              /\ end_date < start_date => yf[1] < 0

C7_Witness ==
    /\ DayCountDone
    /\ conv = "Actual365"
    /\ end_date < start_date
    /\ yf[1] < 0

\* C8: ActualActual divides end - start by 366 when the year of the start
\* date is divisible by 4 and (not by 100, or by 400), else by 365, whatever
\* the year of the end date: start years 2000 and 2024 give 366, 1900 and
\* 2023 give 365.
C8_ActualActualStartYear ==
    LET y == Year(start_date)
    IN  (DayCountDone /\ conv = "ActualActual") =>
        /\ yf[1] = end_date - start_date
        /\ yf[2] = IF y % 4 = 0 /\ (y % 100 # 0 \/ y % 400 = 0) THEN 366 ELSE 365
        /\ y \in {2000, 2024} => yf[2] = 366
        /\ y \in {1900, 2023} => yf[2] = 365

\* a start date in 1900 (not leap) with an end date in 2000 (leap)
C8_Witness ==
    /\ DayCountDone
    /\ conv = "ActualActual"
    /\ Year(start_date) = 1900
    /\ Year(end_date) = 2000
    /\ yf[2] = 365

===========================================================================
